---- MODULE Spec2Model ----
(***************************************************************************)
(* Model of ui.py: the filter / rank / scroll / render state machine of    *)
(* _PanelPromptSession.  A character is its Unicode code point and a str    *)
(* is a sequence of code points, so that lower(), strip(), find(), sorted() *)
(* and slicing are computed, not assumed.                                   *)
(***************************************************************************)
EXTENDS Integers, Sequences, FiniteSets, TLC

VARIABLES
    choices,          \* self.choices
    max_rows,         \* self.max_rows
    input_text,       \* self.input_text
    filtered_items,   \* self.filtered_items
    selected_index,   \* self.selected_index
    view_start,       \* self.view_start
    previous_value,   \* local of the last filter_items() call
    last_key,         \* key of the handler that ran last
    exit_state,       \* how app.run() ended: "running", "result", "exception"
    result,           \* value app.run() returns
    rank_source,      \* recompute: candidate list
    rank_query,       \* recompute: raw query
    rank_out,         \* recompute: filtered and ranked list
    rank_done,        \* recompute: applied
    trunc_text,       \* _truncate: text
    trunc_width,      \* _truncate: width
    trunc_out         \* _truncate: successive outputs

sessionVars == <<choices, max_rows, input_text, filtered_items, selected_index,
                 view_start, previous_value, last_key, exit_state, result>>
rankVars == <<rank_source, rank_query, rank_out, rank_done>>
truncVars == <<trunc_text, trunc_width, trunc_out>>
vars == <<sessionVars, rankVars, truncVars>>

-----------------------------------------------------------------------------
(* Bounds of the explored input space *)

MaxInput == 2
MaxRowsBound == 2
MaxChoices == 4
MaxLongChoices == 3
MaxTruncLen == 4
MaxTruncWidth == 4
MaxRankLen == 3

-----------------------------------------------------------------------------
(* Characters *)

SP == 32
NL == 10
ch_A == 65
ch_B == 66
ch_a == 97
ch_b == 98
ch_c == 99
ch_x == 120
ch_y == 121
ch_z == 122
ELLIPSIS == 8230
HLINE == 9472

\* Python's None, distinct from every str
None == <<-1>>

-----------------------------------------------------------------------------
(* Python built-ins on str and list *)

\* The value of a body over a local bound once: One({body : x \in {v}}) is
\* Python's  x = v; body
One(S) == CHOOSE r \in S : TRUE

len(s) == Len(s)

lower_char(c) == IF c >= 65 /\ c <= 90 THEN c + 32 ELSE c

lower(s) == [i \in 1..Len(s) |-> lower_char(s[i])]

isspace(c) == c = SP \/ c = NL

RECURSIVE lstrip(_)
lstrip(s) == IF s # <<>> /\ isspace(s[1]) THEN lstrip(Tail(s)) ELSE s

RECURSIVE rstrip(_)
rstrip(s) ==
    IF s # <<>> /\ isspace(s[Len(s)]) THEN rstrip(SubSeq(s, 1, Len(s) - 1)) ELSE s

strip(s) == rstrip(lstrip(s))

startswith(text, prefix) ==
    Len(prefix) <= Len(text) /\ SubSeq(text, 1, Len(prefix)) = prefix

\* 0-based offsets at which sub occurs in text
occurrences(text, sub) ==
    {p \in 0..(Len(text) - Len(sub)) : SubSeq(text, p + 1, p + Len(sub)) = sub}

\* sub in text
contains(text, sub) == occurrences(text, sub) # {}

\* text.find(sub): lowest offset, -1 when absent
find(text, sub) ==
    IF occurrences(text, sub) = {} THEN -1
    ELSE CHOOSE p \in occurrences(text, sub) : \A r \in occurrences(text, sub) : p <= r

\* value in list
in_list(v, list) == \E i \in 1..Len(list) : list[i] = v

\* list.index(value), 0-based, of a value that is present
index(list, v) ==
    (CHOOSE i \in 1..Len(list) : list[i] = v /\ \A j \in 1..(i - 1) : list[j] # v) - 1

\* a < b on str: ordinal, lexicographic (decided at the first offset where
\* the two differ, by length when one is a prefix of the other)
str_lt(a, b) ==
    \A differ \in {{i \in 1..(IF Len(a) < Len(b) THEN Len(a) ELSE Len(b)) : a[i] # b[i]}} :
        IF differ = {} THEN Len(a) < Len(b)
        ELSE \E k \in differ : (\A j \in differ : k <= j) /\ a[k] < b[k]

\* a < b on the (int, int, str) tuples sort_key returns
key_lt(a, b) ==
    IF a[1] # b[1] THEN a[1] < b[1]
    ELSE IF a[2] # b[2] THEN a[2] < b[2]
    ELSE str_lt(a[3], b[3])

\* sorted(): ascending and stable; less[i][j] is key(items[i]) < key(items[j])
sorted(items, less) ==
    LET n == Len(items)
        places == [i \in 1..n |-> Cardinality({j \in 1..n :
                      less[j][i] \/ (~less[i][j] /\ j < i)}) + 1]
    IN  One({[p \in 1..n |-> items[CHOOSE i \in 1..n : place[i] = p]] : place \in {places}})

\* text.ljust(width)
ljust(text, width) ==
    IF Len(text) >= width THEN text
    ELSE text \o [i \in 1..(width - Len(text)) |-> SP]

\* text.center(width, fill)
center(text, width, fill) ==
    IF Len(text) >= width THEN text
    ELSE LET marg == width - Len(text)
             left == (marg \div 2) + (IF marg % 2 = 1 /\ width % 2 = 1 THEN 1 ELSE 0)
         IN  [i \in 1..left |-> fill] \o text \o [i \in 1..(marg - left) |-> fill]

\* range(n)
range(n) == IF n > 0 THEN 0..(n - 1) ELSE {}

-----------------------------------------------------------------------------
(* _PanelPromptSession: filter and rank *)

\* sort_key with the starts-with flag inverted
sort_key_inverted(item, lowered) ==
    One({LET starts_with == IF startswith(text, lowered) THEN 1 ELSE 0
             position == IF find(text, lowered) >= 0 THEN find(text, lowered)
                         ELSE len(text)
         IN  <<starts_with, position, text>> : text \in {lower(item)}})

\* sort_key without the lowercased text as its last component
sort_key_no_text(item, lowered) ==
    One({LET starts_with == IF startswith(text, lowered) THEN 0 ELSE 1
             position == IF find(text, lowered) >= 0 THEN find(text, lowered)
                         ELSE len(text)
         IN  <<starts_with, position, <<>> >> : text \in {lower(item)}})

\* sort_key(item) of _sort_items, for the lowered query
sort_key(item, lowered) ==
    One({LET starts_with == IF startswith(text, lowered) THEN 0 ELSE 1
             position == IF find(text, lowered) >= 0 THEN find(text, lowered)
                         ELSE len(text)
         IN  <<starts_with, position, text>> : text \in {lower(item)}})

\* _sort_items that orders an empty query's list by the lowercased text
_sort_items_lowered(items, query) ==
    IF items = <<>> THEN <<>>
    ELSE IF query = <<>>
    THEN sorted(items, [i \in 1..Len(items) |-> [j \in 1..Len(items) |->
                             str_lt(lower(items[i]), lower(items[j]))]])
    ELSE sorted(items, [i \in 1..Len(items) |-> [j \in 1..Len(items) |->
                             key_lt(sort_key(items[i], lower(query)),
                                    sort_key(items[j], lower(query)))]])

\* the comparisons sorted() makes between the keys
less_than(keys) ==
    [i \in 1..Len(keys) |-> [j \in 1..Len(keys) |-> key_lt(keys[i], keys[j])]]

_sort_items(items, query) ==
    IF items = <<>> THEN <<>>
    ELSE IF query = <<>>
    THEN sorted(items, [i \in 1..Len(items) |-> [j \in 1..Len(items) |->
                             str_lt(items[i], items[j])]])
    ELSE One({sorted(items, less) :
              less \in {One({less_than(keys) :
                             keys \in {One({[i \in 1..Len(items) |->
                                               sort_key(items[i], lowered)] :
                                            lowered \in {lower(query)}})}})}})

\* the filter without .lower() on the item
matches_case_sensitive(item, query) == contains(item, lower(query))

\* item passes the filter of filter_items for the stripped query
matches(item, query) == contains(lower(item), lower(query))

\* filter_items, lines 79-86: the list stored in self.filtered_items
recompute(source, text) ==
    One({One({_sort_items(filtered, query) :
              filtered \in {IF query = <<>> THEN source
                            ELSE SelectSeq(source, LAMBDA item : matches(item, query))}}) :
         query \in {strip(text)}})

-----------------------------------------------------------------------------
(* _PanelPromptSession: selection and viewport *)

Max(a, b) == IF a >= b THEN a ELSE b
Min(a, b) == IF a <= b THEN a ELSE b

\* _ensure_selection_visible that recenters whatever reset_view is
_ensure_selection_visible_recenter(items, sel, vstart, rows, reset_view) ==
    IF items = <<>> THEN 0
    ELSE IF rows <= 0 THEN 0
    ELSE Max(0, Min(sel, Max(Len(items) - rows, 0)))

\* _ensure_selection_visible without the scroll-down branch of line 212
_ensure_selection_visible_no_scroll_down(items, sel, vstart, rows, reset_view) ==
    IF items = <<>> THEN 0
    ELSE IF rows <= 0 THEN 0
    ELSE LET max_view_start == Max(Len(items) - rows, 0)
             moved == IF sel < vstart THEN sel ELSE vstart
         IN  IF reset_view THEN Max(0, Min(sel, max_view_start))
             ELSE Max(0, Min(moved, max_view_start))

\* the value self.view_start has when _ensure_selection_visible returns
_ensure_selection_visible(items, sel, vstart, rows, reset_view) ==
    IF items = <<>> THEN 0
    ELSE IF rows <= 0 THEN 0
    ELSE LET max_view_start == Max(Len(items) - rows, 0)
             moved == IF sel < vstart THEN sel
                      ELSE IF sel >= vstart + rows THEN sel - rows + 1
                      ELSE vstart
         IN  IF reset_view THEN Max(0, Min(sel, max_view_start))
             ELSE Max(0, Min(moved, max_view_start))

\* filter_items that always resets the selection
reselect_reset(prev, sorted_items) == 0

\* the new selected_index of filter_items, lines 93-96
reselect(prev, sorted_items) ==
    IF prev # None /\ prev # <<>> /\ in_list(prev, sorted_items)
    THEN index(sorted_items, prev)
    ELSE 0

\* filter_items that passes reset_view=True whatever happened to the selection
filter_items_always_reset(source, text, items, sel, vstart, rows) ==
    LET prev == IF items # <<>> /\ 0 <= sel /\ sel < Len(items) THEN items[sel + 1] ELSE None
    IN  One({LET new_sel == IF sorted_items = <<>> THEN 0 ELSE reselect(prev, sorted_items)
             IN  [filtered_items |-> sorted_items,
                  selected_index |-> new_sel,
                  view_start |-> IF sorted_items = <<>> THEN 0
                                 ELSE _ensure_selection_visible(sorted_items, new_sel, vstart,
                                          rows, TRUE),
                  previous_value |-> prev] :
             sorted_items \in {recompute(source, text)}})

\* the session fields filter_items leaves behind
filter_items(source, text, items, sel, vstart, rows) ==
    LET prev == IF items # <<>> /\ 0 <= sel /\ sel < Len(items) THEN items[sel + 1] ELSE None
    IN  One({LET new_sel == IF sorted_items = <<>> THEN 0 ELSE reselect(prev, sorted_items)
             IN  [filtered_items |-> sorted_items,
                  selected_index |-> new_sel,
                  view_start |-> IF sorted_items = <<>> THEN 0
                                 ELSE _ensure_selection_visible(sorted_items, new_sel, vstart,
                                          rows, ~in_list(prev, sorted_items)),
                  previous_value |-> prev] :
             sorted_items \in {recompute(source, text)}})

\* _accept_selection that takes the first item instead of the highlighted one
_accept_selection_first(items, sel, text) == IF items # <<>> THEN items[1] ELSE text

\* _accept_selection: the new self.input_text
_accept_selection(items, sel, text) == IF items # <<>> THEN items[sel + 1] ELSE text

\* _truncate that keeps width characters before the ellipsis
_truncate_overlong(text, width) ==
    IF width <= 0 THEN <<>>
    ELSE IF len(text) <= width THEN text
    ELSE IF width = 1 THEN <<ELLIPSIS>>
    ELSE SubSeq(text, 1, width) \o <<ELLIPSIS>>

\* _truncate(text, width)
_truncate(text, width) ==
    IF width <= 0 THEN <<>>
    ELSE IF len(text) <= width THEN text
    ELSE IF width = 1 THEN <<ELLIPSIS>>
    ELSE SubSeq(text, 1, width - 1) \o <<ELLIPSIS>>

-----------------------------------------------------------------------------
(* _PanelPromptSession: panel renderer.  A FormattedText is a sequence of  *)
(* <<style, text>> fragments.                                               *)

panel_width == 80
panel_inner_width == panel_width - 4

prompt_text == <<10095, SP>>                                        \* "❯ "
title_results == <<78, 101, 114, 100, 73, 99, 111, 110, 115>>       \* "NerdIcons"
title_empty == <<78, 111, SP, 114, 101, 115, 117, 108, 116, 115>>   \* "No results"
message_empty ==                                                    \* "Tidak ada hasil"
    <<84, 105, 100, 97, 107, SP, 97, 100, 97, SP, 104, 97, 115, 105, 108>>
footer_hint ==                              \* "Tab: isi dari pilihan | Ctrl+C: batal"
    <<84, 97, 98, 58, SP, 105, 115, 105, SP, 100, 97, 114, 105, SP, 112, 105, 108, 105,
      104, 97, 110, SP, 124, SP, 67, 116, 114, 108, 43, 67, 58, SP, 98, 97, 116, 97, 108>>
separator == <<SP, 183, SP>>                                        \* " · "
prefix_selected == <<8250, SP>>                                     \* "› "
prefix_plain == <<SP, SP>>

RECURSIVE flat(_)
\* lines.extend(...) over a sequence of FormattedTexts
flat(texts) == IF texts = <<>> THEN <<>> ELSE Head(texts) \o flat(Tail(texts))

_panel_header(title) ==
    << <<"class:panel-border",
         <<9484>> \o center(<<SP>> \o title \o <<SP>>, panel_width - 2, HLINE)
                  \o <<9488, NL>> >> >>

_panel_footer ==
    << <<"class:panel-border",
         <<9492>> \o [i \in 1..(panel_width - 2) |-> HLINE] \o <<9496, NL>> >> >>

_panel_row(text, style) ==
    << <<"class:panel-border", <<9474, SP>> >>,
       <<style, ljust(text, panel_inner_width)>>,
       <<"class:panel-border", <<SP, 9474, NL>> >> >>

\* offsets (1-based) of the spaces of a str
spaces(text) == {i \in 1..Len(text) : text[i] = SP}

first_space(text) == CHOOSE i \in spaces(text) : \A j \in spaces(text) : i <= j
last_space(text) == CHOOSE i \in spaces(text) : \A j \in spaces(text) : i >= j

\* _format_item_columns that pads the name without truncating it
_format_item_columns_full_name(item, content_width) ==
    IF content_width <= 0 THEN <<>>
    ELSE IF spaces(item) = {} THEN _truncate(item, content_width)
    ELSE LET glyph == SubSeq(item, 1, first_space(item) - 1)
             rest == SubSeq(item, first_space(item) + 1, Len(item))
         IN  IF spaces(rest) = {} THEN _truncate(item, content_width)
             ELSE LET name == SubSeq(rest, 1, last_space(rest) - 1)
                      code == SubSeq(rest, last_space(rest) + 1, Len(rest))
                      separators_len == len(separator) * 2
                      base_len == len(glyph) + len(code) + separators_len
                      name_space == content_width - base_len
                  IN  IF content_width <= base_len + 1 THEN _truncate(item, content_width)
                      ELSE glyph \o separator \o ljust(name, name_space)
                                 \o separator \o code

_format_item_columns(item, content_width) ==
    IF content_width <= 0 THEN <<>>
    ELSE IF spaces(item) = {} THEN _truncate(item, content_width)
    ELSE LET glyph == SubSeq(item, 1, first_space(item) - 1)
             rest == SubSeq(item, first_space(item) + 1, Len(item))
         IN  IF spaces(rest) = {} THEN _truncate(item, content_width)
             ELSE LET name == SubSeq(rest, 1, last_space(rest) - 1)
                      code == SubSeq(rest, last_space(rest) + 1, Len(rest))
                      separators_len == len(separator) * 2
                      base_len == len(glyph) + len(code) + separators_len
                      name_space == content_width - base_len
                  IN  IF content_width <= base_len + 1 THEN _truncate(item, content_width)
                      ELSE glyph \o separator \o ljust(_truncate(name, name_space), name_space)
                                 \o separator \o code

\* item_row that compares the display slot, not the item's index, with sel
item_row_slot(items, sel, vstart, idx) ==
    LET actual_index == vstart + idx
        is_selected == idx = sel
        prefix == IF is_selected THEN prefix_selected ELSE prefix_plain
    IN  IF actual_index < Len(items)
        THEN _panel_row(prefix \o _format_item_columns(items[actual_index + 1],
                                                       panel_inner_width - len(prefix)),
                        IF is_selected THEN "class:selected-line" ELSE "class:panel-line")
        ELSE _panel_row(<<>>, "class:panel-placeholder")

\* the row of display slot idx of a non-empty panel
item_row(items, sel, vstart, idx) ==
    LET actual_index == vstart + idx
        is_selected == actual_index = sel
        prefix == IF is_selected THEN prefix_selected ELSE prefix_plain
    IN  IF actual_index < Len(items)
        THEN _panel_row(prefix \o _format_item_columns(items[actual_index + 1],
                                                       panel_inner_width - len(prefix)),
                        IF is_selected THEN "class:selected-line" ELSE "class:panel-line")
        ELSE _panel_row(<<>>, "class:panel-placeholder")

\* render_panel whose empty branch adds max_rows placeholder rows
render_panel_extra_row(items, sel, vstart, rows) ==
    IF items = <<>>
    THEN _panel_header(title_empty)
         \o _panel_row(_truncate(message_empty, panel_inner_width), "class:no-results")
         \o flat([i \in 1..rows |-> _panel_row(<<>>, "class:panel-placeholder")])
         \o _panel_footer
    ELSE _panel_header(title_results)
         \o flat([i \in 1..rows |-> item_row(items, sel, vstart, i - 1)])
         \o _panel_footer

render_panel(items, sel, vstart, rows) ==
    IF items = <<>>
    THEN _panel_header(title_empty)
         \o _panel_row(_truncate(message_empty, panel_inner_width), "class:no-results")
         \o flat([i \in 1..(rows - 1) |-> _panel_row(<<>>, "class:panel-placeholder")])
         \o _panel_footer
    ELSE _panel_header(title_results)
         \o flat([i \in 1..rows |-> item_row(items, sel, vstart, i - 1)])
         \o _panel_footer

render_content(text, items, sel, vstart, rows) ==
    << <<"class:prompt", prompt_text>>, <<"class:input", text>> >>
    \o (IF items # <<>>
        THEN << <<"", <<NL, NL>> >> >> \o render_panel(items, sel, vstart, rows)
             \o << <<"", <<NL>> >> >>
        ELSE <<>>)
    \o << <<"class:footer", footer_hint>> >>

-----------------------------------------------------------------------------
(* Inputs of a session *)

\* characters the run() loop binds to the insert handler (a subset of them)
InputChars == {ch_a, ch_b, ch_A, SP}

\* c * n of Python: the str of n characters c
times(c, n) == [i \in 1..n |-> c]

\* candidates wider than a panel row:
\*   "a xxx...x A"   three fields, the name wider than the row
\*   "xxx...x a b"   three fields, the glyph wider than the row
\*   "yyy...y"       no field separators
\*   "xxx...x a A"   three fields that leave the name two columns, and one column
LongChoices ==
    << <<ch_a, SP>> \o times(ch_x, panel_width) \o <<SP, ch_A>>,
       times(ch_x, panel_width) \o <<SP, ch_a, SP, ch_b>>,
       times(ch_y, panel_width),
       times(ch_x, panel_inner_width - 11) \o <<SP, ch_a, ch_a, ch_a, SP, ch_A>>,
       times(ch_x, panel_inner_width - 10) \o <<SP, ch_a, ch_a, SP, ch_A>>,
       times(ch_y, panel_inner_width - 1) >>

\* lists of short candidates an embedder passes as choices
BaseChoices ==
    { << <<ch_b, ch_a>>, <<ch_A, ch_b>>, <<ch_a, ch_b>>, <<ch_b>>,
         <<ch_a, ch_a, ch_b>>, <<ch_B, ch_a>> >>,
      << <<ch_a, ch_b>>, <<SP, ch_a>>, <<ch_a, ch_b>>, <<>>,
         <<ch_b, SP>>, <<ch_a>> >>,
      << <<ch_a, SP, ch_b, SP, ch_A>>, <<ch_b, SP, ch_a, ch_b, SP, ch_B>>,
         <<ch_A, SP, ch_a, SP, ch_a>>, <<ch_a, ch_b, SP, ch_a>>,
         <<ch_b, SP, ch_b, SP, ch_b>>, <<ch_A>> >> }

\* every prefix of a list of short candidates, and every non-empty prefix of
\* the wide ones
ChoiceLists ==
    {SubSeq(base, 1, n) : base \in BaseChoices, n \in 0..MaxChoices}
    \cup {SubSeq(LongChoices, 1, n) : n \in 1..MaxLongChoices}

RowCounts == 0..MaxRowsBound

-----------------------------------------------------------------------------
(* The session: construction and key handlers *)

RankIdle ==
    /\ rank_source = <<>>
    /\ rank_query = <<>>
    /\ rank_out = <<>>
    /\ rank_done = FALSE

TruncIdle ==
    /\ trunc_text = <<>>
    /\ trunc_width = 0
    /\ trunc_out = <<>>

\* __init__
Init ==
    /\ choices \in ChoiceLists
    /\ max_rows \in RowCounts
    /\ input_text = <<>>
    /\ \E f \in {filter_items(choices, <<>>, <<>>, 0, 0, max_rows)} :
           /\ filtered_items = f.filtered_items
           /\ selected_index = f.selected_index
           /\ view_start = f.view_start
           /\ previous_value = f.previous_value
    /\ last_key = ""
    /\ exit_state = "running"
    /\ result = None
    /\ RankIdle
    /\ TruncIdle

\* a handler that sets self.input_text and calls filter_items()
Refilter(text) ==
    \E f \in {filter_items(choices, text, filtered_items, selected_index, view_start,
                           max_rows)} :
        /\ input_text' = text
        /\ filtered_items' = f.filtered_items
        /\ selected_index' = f.selected_index
        /\ view_start' = f.view_start
        /\ previous_value' = f.previous_value

Handled(key) ==
    /\ last_key' = key
    /\ UNCHANGED <<choices, max_rows, rankVars, truncVars>>

\* @kb.add("up")
Up ==
    /\ exit_state = "running"
    /\ IF filtered_items # <<>> /\ selected_index > 0
       THEN /\ selected_index' = selected_index - 1
            /\ view_start' = _ensure_selection_visible(filtered_items, selected_index - 1,
                                                       view_start, max_rows, FALSE)
       ELSE UNCHANGED <<selected_index, view_start>>
    /\ UNCHANGED <<input_text, filtered_items, previous_value, exit_state, result>>
    /\ Handled("up")

\* the down handler testing only that the selection is not the last index
Down_not_last ==
    /\ exit_state = "running"
    /\ IF selected_index # Len(filtered_items) - 1
       THEN /\ selected_index' = selected_index + 1
            /\ view_start' = _ensure_selection_visible(filtered_items, selected_index + 1,
                                                       view_start, max_rows, FALSE)
       ELSE UNCHANGED <<selected_index, view_start>>
    /\ UNCHANGED <<input_text, filtered_items, previous_value, exit_state, result>>
    /\ Handled("down")

\* the down handler without the upper bound of line 252
Down_unbounded ==
    /\ exit_state = "running"
    /\ IF filtered_items # <<>>
       THEN /\ selected_index' = selected_index + 1
            /\ view_start' = _ensure_selection_visible(filtered_items, selected_index + 1,
                                                       view_start, max_rows, FALSE)
       ELSE UNCHANGED <<selected_index, view_start>>
    /\ UNCHANGED <<input_text, filtered_items, previous_value, exit_state, result>>
    /\ Handled("down")

\* @kb.add("down")
Down ==
    /\ exit_state = "running"
    /\ IF filtered_items # <<>> /\ selected_index < Len(filtered_items) - 1
       THEN /\ selected_index' = selected_index + 1
            /\ view_start' = _ensure_selection_visible(filtered_items, selected_index + 1,
                                                       view_start, max_rows, FALSE)
       ELSE UNCHANGED <<selected_index, view_start>>
    /\ UNCHANGED <<input_text, filtered_items, previous_value, exit_state, result>>
    /\ Handled("down")

\* the tab handler that highlights the first row after accepting
tab_handler_reset(source, text, items, sel, vstart, rows) ==
    One({One({[input_text |-> accepted,
               filtered_items |-> f.filtered_items,
               selected_index |-> 0,
               view_start |-> _ensure_selection_visible(f.filtered_items, 0,
                                                        f.view_start, rows, FALSE),
               previous_value |-> f.previous_value] :
              f \in {filter_items(source, accepted, items, sel, vstart, rows)}}) :
         accepted \in {_accept_selection(items, sel, text)}})

\* the body of the tab handler on a non-empty list: _accept_selection(),
\* filter_items(), _ensure_selection_visible()
tab_handler(source, text, items, sel, vstart, rows) ==
    One({One({[input_text |-> accepted,
               filtered_items |-> f.filtered_items,
               selected_index |-> f.selected_index,
               view_start |-> _ensure_selection_visible(f.filtered_items, f.selected_index,
                                                        f.view_start, rows, FALSE),
               previous_value |-> f.previous_value] :
              f \in {filter_items(source, accepted, items, sel, vstart, rows)}}) :
         accepted \in {_accept_selection(items, sel, text)}})

\* @kb.add("tab")
Tab ==
    /\ exit_state = "running"
    /\ IF filtered_items # <<>>
       THEN \E t \in {tab_handler(choices, input_text, filtered_items, selected_index,
                                  view_start, max_rows)} :
                /\ input_text' = t.input_text
                /\ filtered_items' = t.filtered_items
                /\ selected_index' = t.selected_index
                /\ view_start' = t.view_start
                /\ previous_value' = t.previous_value
       ELSE UNCHANGED <<input_text, filtered_items, selected_index, view_start, previous_value>>
    /\ UNCHANGED <<exit_state, result>>
    /\ Handled("tab")

\* the enter handler testing the stripped query
submit_text_stripped(text, items, sel) ==
    IF strip(text) = <<>> /\ items # <<>> THEN items[sel + 1] ELSE text

\* the text the enter handler passes to event.app.exit(result=...)
submit_text(text, items, sel) ==
    IF text = <<>> /\ items # <<>> THEN items[sel + 1] ELSE text

\* @kb.add("enter")
Enter ==
    /\ exit_state = "running"
    /\ result' = submit_text(input_text, filtered_items, selected_index)
    /\ exit_state' = "result"
    /\ UNCHANGED <<input_text, filtered_items, selected_index, view_start, previous_value>>
    /\ Handled("enter")

\* @kb.add("escape")
Escape ==
    /\ exit_state = "running"
    /\ Refilter(<<>>)
    /\ UNCHANGED <<exit_state, result>>
    /\ Handled("escape")

\* the backspace handler without its filter_items() call
Backspace_no_refilter ==
    /\ exit_state = "running"
    /\ IF input_text # <<>>
       THEN /\ input_text' = SubSeq(input_text, 1, Len(input_text) - 1)
            /\ UNCHANGED <<filtered_items, selected_index, view_start, previous_value>>
       ELSE UNCHANGED <<input_text, filtered_items, selected_index, view_start, previous_value>>
    /\ UNCHANGED <<exit_state, result>>
    /\ Handled("backspace")

\* @kb.add("backspace")
Backspace ==
    /\ exit_state = "running"
    /\ IF input_text # <<>>
       THEN Refilter(SubSeq(input_text, 1, Len(input_text) - 1))
       ELSE UNCHANGED <<input_text, filtered_items, selected_index, view_start, previous_value>>
    /\ UNCHANGED <<exit_state, result>>
    /\ Handled("backspace")

\* @kb.add("c-u")
CtrlU ==
    /\ exit_state = "running"
    /\ Refilter(<<>>)
    /\ UNCHANGED <<exit_state, result>>
    /\ Handled("c-u")

\* the c-c handler exiting with an empty result instead of the exception
CtrlC_empty_result ==
    /\ exit_state = "running"
    /\ exit_state' = "result"
    /\ result' = <<>>
    /\ UNCHANGED <<input_text, filtered_items, selected_index, view_start, previous_value>>
    /\ Handled("c-c")

\* @kb.add("c-c")
CtrlC ==
    /\ exit_state = "running"
    /\ exit_state' = "exception"
    /\ UNCHANGED <<input_text, filtered_items, selected_index, view_start, previous_value,
                   result>>
    /\ Handled("c-c")

\* @kb.add(char)
InsertChar ==
    /\ exit_state = "running"
    /\ Len(input_text) < MaxInput
    /\ \E c \in InputChars : Refilter(Append(input_text, c))
    /\ UNCHANGED <<exit_state, result>>
    /\ Handled("char")

Next ==
    \/ Up
    \/ Down
    \/ Tab
    \/ Enter
    \/ Escape
    \/ Backspace
    \/ CtrlU
    \/ CtrlC
    \/ InsertChar

Spec == Init /\ [][Next]_vars

-----------------------------------------------------------------------------
(* recompute as a pure function: candidates and query drawn from bounded     *)
(* sets, filter_items' filter-and-rank applied once                          *)

SessionIdle ==
    /\ choices = <<>>
    /\ max_rows = 0
    /\ input_text = <<>>
    /\ filtered_items = <<>>
    /\ selected_index = 0
    /\ view_start = 0
    /\ previous_value = None
    /\ last_key = ""
    /\ exit_state = "running"
    /\ result = None

s_Abc == <<ch_A, ch_b, ch_c>>
s_xAbcy == <<ch_x, ch_A, ch_b, ch_c, ch_y>>
s_abcz == <<ch_a, ch_b, ch_c, ch_z>>
s_abc == <<ch_a, ch_b, ch_c>>

RankPool ==
    {s_Abc, s_xAbcy, s_abcz, <<ch_a, ch_b>>, <<ch_A, ch_B>>, <<SP, ch_b>>, <<ch_B, ch_c>>}

RECURSIVE SeqsUpTo(_, _)
\* the sequences of at most n elements of S
SeqsUpTo(S, n) ==
    IF n = 0 THEN {<<>>}
    ELSE LET shorter == SeqsUpTo(S, n - 1)
         IN  shorter \cup {Append(q, x) : q \in shorter, x \in S}

RankLists == SeqsUpTo(RankPool, MaxRankLen)

RankQueries ==
    {<<>>, <<SP>>, s_abc, <<ch_A, ch_B, ch_c>>, <<SP, ch_a, ch_b, ch_c, SP>>, <<ch_b>>,
     <<ch_B>>, <<ch_c, SP>>, <<ch_b, ch_c>>, <<ch_z>>, <<SP, ch_b>>, <<ch_b, ch_a>>}

InitRank ==
    /\ rank_source \in RankLists
    /\ rank_query \in RankQueries
    /\ rank_out = <<>>
    /\ rank_done = FALSE
    /\ SessionIdle
    /\ TruncIdle

Recompute ==
    /\ ~rank_done
    /\ rank_out' = recompute(rank_source, rank_query)
    /\ rank_done' = TRUE
    /\ UNCHANGED <<rank_source, rank_query, sessionVars, truncVars>>

NextRank == Recompute

SpecRank == InitRank /\ [][NextRank]_vars

-----------------------------------------------------------------------------
(* _truncate as a pure function: applied to a text, then to its own output   *)

TruncTexts == SeqsUpTo({ch_a, ch_b, ELLIPSIS}, MaxTruncLen)

InitTrunc ==
    /\ trunc_text \in TruncTexts
    /\ trunc_width \in -1..MaxTruncWidth
    /\ trunc_out = <<>>
    /\ SessionIdle
    /\ RankIdle

TruncateOnce ==
    /\ trunc_out = <<>>
    /\ trunc_out' = <<_truncate(trunc_text, trunc_width)>>
    /\ UNCHANGED <<trunc_text, trunc_width, sessionVars, rankVars>>

TruncateAgain ==
    /\ Len(trunc_out) = 1
    /\ trunc_out' = Append(trunc_out, _truncate(trunc_out[1], trunc_width))
    /\ UNCHANGED <<trunc_text, trunc_width, sessionVars, rankVars>>

NextTrunc ==
    \/ TruncateOnce
    \/ TruncateAgain

SpecTrunc == InitTrunc /\ [][NextTrunc]_vars

-----------------------------------------------------------------------------
(* Properties of the session *)

\* the candidate the panel highlights, None when the list is empty
Highlighted ==
    IF filtered_items # <<>> THEN filtered_items[selected_index + 1] ELSE None

\* handlers that edit the query and re-filter
EditKeys == {"char", "backspace", "escape", "c-u", "tab"}

\* C1 - Viewport invariant: with max_rows >= 1 and a non-empty filtered list,
\* 0 <= view_start <= max(len(filtered) - max_rows, 0) and
\* view_start <= selected_index < view_start + max_rows, after construction
\* and after every command.
ViewportInvariant ==
    (max_rows >= 1 /\ filtered_items # <<>>) =>
        /\ 0 <= view_start
        /\ view_start <= Max(Len(filtered_items) - max_rows, 0)
        /\ view_start <= selected_index
        /\ selected_index < view_start + max_rows

\* navigate-down has scrolled the window of a list longer than max_rows
ViewportScrolled ==
    /\ last_key = "down"
    /\ max_rows >= 1
    /\ Len(filtered_items) > max_rows
    /\ view_start > 0
    /\ selected_index = view_start + max_rows - 1

\* C2 - Selection-index invariant: 0 <= selected_index < len(filtered) when
\* filtered is non-empty; selected_index = 0 and view_start = 0 when it is empty.
SelectionIndexInvariant ==
    IF filtered_items # <<>>
    THEN 0 <= selected_index /\ selected_index < Len(filtered_items)
    ELSE selected_index = 0 /\ view_start = 0

\* navigate-down has reached the last item of a list of several
SelectionAtLast ==
    /\ last_key = "down"
    /\ Len(filtered_items) >= 2
    /\ selected_index = Len(filtered_items) - 1

\* C3 - Selection preservation: after an edit that re-filters, the highlighted
\* value is the one highlighted before if the new list still holds it; if it
\* does not and the new list is non-empty, selected_index is 0.
SelectionPreserved ==
    [][last_key' \in EditKeys =>
          /\ (Highlighted # None /\ in_list(Highlighted, filtered_items'))
                 => filtered_items'[selected_index' + 1] = Highlighted
          /\ (~in_list(Highlighted, filtered_items') /\ filtered_items' # <<>>)
                 => selected_index' = 0]_vars

\* typing a character kept the highlighted candidate, at an index other than 0
SelectionKept ==
    /\ last_key = "char"
    /\ previous_value # None
    /\ selected_index > 0
    /\ filtered_items[selected_index + 1] = previous_value

-----------------------------------------------------------------------------
(* Properties of filter and rank *)

\* q occurs in item as a substring, letter case ignored
OccursIgnoringCase(item, q) ==
    \E p \in 0..(Len(item) - Len(q)) :
        \A k \in 1..Len(q) : lower_char(item[p + k]) = lower_char(q[k])

\* number of occurrences of v in a list
Count(list, v) == Cardinality({i \in 1..Len(list) : list[i] = v})

\* C4 - Filter correctness: for a query whose trimmed form is non-empty, every
\* item of the result contains the trimmed query case-insensitively, and every
\* item of C that contains it is in the result exactly once (a value C lists
\* several times, as many times as C lists it).
FilterCorrect ==
    (rank_done /\ strip(rank_query) # <<>>) =>
        /\ \A i \in 1..Len(rank_out) : OccursIgnoringCase(rank_out[i], strip(rank_query))
        /\ \A i \in 1..Len(rank_source) :
               OccursIgnoringCase(rank_source[i], strip(rank_query))
                   => Count(rank_out, rank_source[i]) = Count(rank_source, rank_source[i])

\* a padded query kept an item that matches only with case ignored, and dropped another
FilterSelective ==
    /\ rank_done
    /\ strip(rank_query) # <<>>
    /\ strip(rank_query) # rank_query
    /\ Len(rank_out) >= 1
    /\ Len(rank_out) < Len(rank_source)
    /\ \E i \in 1..Len(rank_out) : ~contains(rank_out[i], strip(rank_query))

\* the candidates and the query of the rank-ordering example
RankExample ==
    /\ rank_done
    /\ rank_source = <<s_Abc, s_xAbcy, s_abcz>>
    /\ rank_query = s_abc

\* C5 (as stated) - Rank ordering example: C = ["Abc", "xAbcy", "abcz"] and
\* q = "abc" give exactly ["abcz", "Abc", "xAbcy"].
RankExampleClaimed == RankExample => rank_out = <<s_abcz, s_Abc, s_xAbcy>>

\* C5 (amended) - Rank ordering example: C = ["Abc", "xAbcy", "abcz"] and
\* q = "abc" give exactly ["Abc", "abcz", "xAbcy"]: both prefix matches come
\* first, "abc" before "abcz" by the lowercased text.
RankExampleActual == RankExample => rank_out = <<s_Abc, s_abcz, s_xAbcy>>

\* the example has been ranked and all three candidates are in the result
RankExampleRanked == RankExample /\ Len(rank_out) = 3

\* a <= b in ordinal (code point) order
OrdinalLE(a, b) ==
    \E k \in 0..Min(Len(a), Len(b)) :
        /\ \A i \in 1..k : a[i] = b[i]
        /\ \/ k = Len(a)
           \/ (k < Len(b) /\ a[k + 1] < b[k + 1])

\* C11 - Empty-query ranking: when the raw query is empty or only whitespace,
\* filtered holds every element of full_candidates (same multiset), in
\* ascending case-sensitive ordinal order of the display string.
EmptyQueryRanking ==
    (rank_done /\ (rank_query = <<>> \/ \A i \in 1..Len(rank_query) : rank_query[i] = SP)) =>
        /\ Len(rank_out) = Len(rank_source)
        /\ \A i \in 1..Len(rank_source) :
               Count(rank_out, rank_source[i]) = Count(rank_source, rank_source[i])
        /\ \A i \in 1..(Len(rank_out) - 1) : OrdinalLE(rank_out[i], rank_out[i + 1])

\* a whitespace-only query reordered three candidates, an uppercase one
\* ahead of a lowercase one that precedes it alphabetically
EmptyQueryReordered ==
    /\ rank_done
    /\ rank_query = <<SP>>
    /\ Len(rank_out) = 3
    /\ rank_out # rank_source
    /\ \E i \in 1..2 : rank_out[i] = <<ch_B, ch_c>> /\ rank_out[i + 1] = <<ch_a, ch_b>>

\* the orders in which an embedder can pass the candidates of a list
Reorderings(list) ==
    {[i \in 1..Len(list) |-> list[p[i]]] : p \in Permutations(1..Len(list))}

\* two different candidates of the list have the same lowercase form
HasCaseTwins(list) ==
    \E i, j \in 1..Len(list) : list[i] # list[j] /\ lower(list[i]) = lower(list[j])

\* C13 (as stated) - Rank order is independent of insertion order: for a
\* non-empty trimmed query, the same candidates given in another order
\* produce the identical filtered sequence.
RankOrderIndependentClaimed ==
    (rank_done /\ strip(rank_query) # <<>>) =>
        \A other \in Reorderings(rank_source) : recompute(other, rank_query) = rank_out

\* C13 (amended) - Rank order is independent of insertion order: for a
\* non-empty trimmed query, the same candidates given in another order
\* produce the identical filtered sequence, provided no two different
\* candidates have the same lowercase form.
RankOrderIndependent ==
    (rank_done /\ strip(rank_query) # <<>> /\ ~HasCaseTwins(rank_source)) =>
        \A other \in Reorderings(rank_source) : recompute(other, rank_query) = rank_out

\* three different matching candidates without case twins, ranked into an
\* order other than the one they were given in
RankedOutOfInputOrder ==
    /\ rank_done
    /\ strip(rank_query) # <<>>
    /\ ~HasCaseTwins(rank_source)
    /\ Len(rank_out) = 3
    /\ Cardinality({rank_out[i] : i \in 1..3}) = 3
    /\ rank_out # rank_source

-----------------------------------------------------------------------------
(* Properties of accept and submit *)

\* no whitespace at either end
Trimmed(item) == strip(item) = item

\* another candidate with the same lowercase form
HasCaseTwin(item) ==
    \E i \in 1..Len(choices) : choices[i] # item /\ lower(choices[i]) = lower(item)

\* C6 (as stated) - Accept round-trip: with a non-empty filtered list, tab sets
\* the query to the highlighted item's full text and the re-filtered list has
\* that item as its first (or only) element.
AcceptRoundTripClaimed ==
    [][(last_key' = "tab" /\ filtered_items # <<>>) =>
          /\ input_text' = Highlighted
          /\ filtered_items' # <<>>
          /\ filtered_items'[1] = Highlighted]_vars

\* C6 (amended) - Accept round-trip: with a non-empty filtered list, tab sets
\* the query to the highlighted item's full text, the re-filtered list holds
\* that item and keeps it highlighted, and it is the first element whenever
\* the item has no leading or trailing whitespace and no other candidate has
\* the same lowercase form.
AcceptRoundTrip ==
    [][(last_key' = "tab" /\ filtered_items # <<>>) =>
          /\ input_text' = Highlighted
          /\ filtered_items' # <<>>
          /\ filtered_items'[selected_index' + 1] = Highlighted
          /\ (Trimmed(Highlighted) /\ ~HasCaseTwin(Highlighted))
                 => filtered_items'[1] = Highlighted]_vars

\* tab accepted a trimmed item without a case twin; the list narrowed to
\* several items with the accepted one on top and highlighted
AcceptedOnTop ==
    /\ last_key = "tab"
    /\ Len(filtered_items) >= 2
    /\ Len(filtered_items) < Len(choices)
    /\ previous_value = input_text
    /\ Trimmed(input_text)
    /\ ~HasCaseTwin(input_text)
    /\ input_text = filtered_items[1]
    /\ selected_index = 0

\* C12 - Derived-state consistency: in every reachable state filtered equals
\* recompute(full_candidates, query) and each of its elements is an element of
\* full_candidates; no command changes full_candidates.
DerivedStateConsistent ==
    /\ [](/\ filtered_items = recompute(choices, input_text)
          /\ \A i \in 1..Len(filtered_items) : in_list(filtered_items[i], choices))
    /\ [][choices' = choices]_vars

\* backspace widened a narrowed list that still leaves candidates out
BackspaceWidened ==
    /\ last_key = "backspace"
    /\ strip(input_text) # <<>>
    /\ filtered_items # <<>>
    /\ Len(filtered_items) < Len(choices)
    /\ previous_value # None
    /\ selected_index > 0

\* C14 - Cancel is distinct from submit: cancel ends the run with the
\* interrupt and no result string, submit ends it with a result string and no
\* interrupt, and no other command ends the run.
CancelDistinct ==
    [][/\ last_key' = "c-c" => (exit_state' = "exception" /\ result' = None)
       /\ last_key' = "enter" => (exit_state' = "result" /\ result' # None)
       /\ last_key' \notin {"c-c", "enter"} => (exit_state' = "running" /\ result' = None)]_vars

\* cancel ended a run in which a query had been typed
Cancelled ==
    /\ last_key = "c-c"
    /\ exit_state = "exception"
    /\ result = None
    /\ input_text # <<>>

\* C15 - Navigation on an empty list is a no-op: with filtered empty, up,
\* down and tab leave query, filtered, selected_index and view_start
\* unchanged and the run goes on.
EmptyNavigationNoOp ==
    [][(filtered_items = <<>> /\ last_key' \in {"up", "down", "tab"}) =>
          /\ UNCHANGED <<input_text, filtered_items, selected_index, view_start>>
          /\ exit_state' = "running"]_vars

\* a navigation key was pressed while a typed query matched no candidate
NavigatedOnEmpty ==
    /\ last_key \in {"up", "down", "tab"}
    /\ filtered_items = <<>>
    /\ choices # <<>>
    /\ input_text # <<>>
    /\ exit_state = "running"

\* C16 - Navigation frame and step: up and down never change query or
\* filtered; up decrements selected_index by 1 when it is > 0 and otherwise
\* changes nothing; down increments it by 1 when it is < len(filtered) - 1 and
\* otherwise changes nothing; view_start changes only when the new
\* selected_index is outside [view_start, view_start + max_rows).
NavigationStep ==
    [][/\ last_key' \in {"up", "down"} =>
              /\ UNCHANGED <<input_text, filtered_items>>
              /\ view_start' # view_start =>
                     ~(view_start <= selected_index'
                           /\ selected_index' < view_start + max_rows)
       /\ last_key' = "up" =>
              IF selected_index > 0 THEN selected_index' = selected_index - 1
              ELSE UNCHANGED <<selected_index, view_start>>
       /\ last_key' = "down" =>
              IF selected_index < Len(filtered_items) - 1
              THEN selected_index' = selected_index + 1
              ELSE UNCHANGED <<selected_index, view_start>>]_vars

\* up moved the selection above a scrolled window and the window followed
ScrolledUp ==
    /\ last_key = "up"
    /\ max_rows >= 1
    /\ Len(filtered_items) > max_rows
    /\ view_start > 0
    /\ selected_index = view_start

Abs(n) == IF n >= 0 THEN n ELSE -n

\* window starts that are in range for a list of n items and show index idx
VisibleStarts(n, idx, rows) ==
    {v \in 0..Max(n - rows, 0) : v <= idx /\ idx < v + rows}

\* C17 - Viewport policy on re-filter: when the re-filter drops the highlighted
\* candidate (or there was none), selected_index is 0 and view_start is
\* clamp(selected_index, 0, max(len(filtered) - max_rows, 0)) = 0; when the
\* candidate survives, view_start is unchanged if it is in range and already
\* shows the candidate's new index, and otherwise moves by the least amount
\* that puts it in range with the index visible.
ViewportPolicy ==
    [][last_key' \in EditKeys =>
          IF ~in_list(Highlighted, filtered_items')
          THEN /\ selected_index' = 0
               /\ view_start' = 0
               /\ view_start' = Max(0, Min(selected_index',
                                           Max(Len(filtered_items') - max_rows, 0)))
          ELSE /\ filtered_items'[selected_index' + 1] = Highlighted
               /\ \A starts \in {VisibleStarts(Len(filtered_items'), selected_index',
                                               max_rows)} :
                      /\ view_start \in starts => view_start' = view_start
                      /\ starts # {} =>
                             /\ view_start' \in starts
                             /\ \A v \in starts :
                                    Abs(view_start' - view_start) <= Abs(v - view_start)
                      /\ starts = {} => view_start' = view_start]_vars

\* the highlighted candidate survived an edit and the window, scrolled, shows
\* it below its first row, where a recentering would have put it on top
WindowKeptOffCenter ==
    /\ last_key \in EditKeys
    /\ previous_value # None
    /\ filtered_items # <<>>
    /\ filtered_items[selected_index + 1] = previous_value
    /\ max_rows >= 2
    /\ view_start > 0
    /\ selected_index > view_start
    /\ view_start < Len(filtered_items) - max_rows

\* C20 - Accept is idempotent: from every reachable state, a second tab
\* right after a tab leaves the query, the filtered list, selected_index and
\* view_start as the first tab left them, and after a tab that accepted an
\* item the highlighted value filtered[selected_index] is the accepted item.
AcceptIdempotent ==
    [][last_key' = "tab" =>
          /\ filtered_items' # <<>> =>
                 \A again \in {tab_handler(choices, input_text', filtered_items',
                                           selected_index', view_start', max_rows)} :
                     /\ again.input_text = input_text'
                     /\ again.filtered_items = filtered_items'
                     /\ again.selected_index = selected_index'
                     /\ again.view_start = view_start'
          /\ filtered_items' = <<>> =>
                 /\ filtered_items = <<>>
                 /\ UNCHANGED <<input_text, selected_index, view_start>>
          /\ filtered_items # <<>> =>
                 /\ filtered_items' # <<>>
                 /\ input_text' = Highlighted
                 /\ filtered_items'[selected_index' + 1] = Highlighted]_vars

\* a tab accepted an item that the narrowed list does not rank first
AcceptedBelowTop ==
    /\ last_key = "tab"
    /\ filtered_items # <<>>
    /\ Len(filtered_items) < Len(choices)
    /\ selected_index > 0
    /\ input_text = filtered_items[selected_index + 1]

\* C7 - Submit contract: enter returns the raw, untrimmed query when it is
\* non-empty, filtered[selected_index] when the raw query is empty and
\* filtered is not, and the empty string when both are empty.
SubmitContract ==
    exit_state = "result" =>
        /\ input_text # <<>> => result = input_text
        /\ (input_text = <<>> /\ filtered_items # <<>>)
               => result = filtered_items[selected_index + 1]
        /\ (input_text = <<>> /\ filtered_items = <<>>) => result = <<>>

\* enter returned a whitespace-only query untrimmed while a candidate was highlighted
SubmittedRaw ==
    /\ exit_state = "result"
    /\ input_text # <<>>
    /\ strip(input_text) = <<>>
    /\ filtered_items # <<>>
    /\ result = input_text

-----------------------------------------------------------------------------
(* Properties of the panel renderer *)

\* what a redraw shows
Content == render_content(input_text, filtered_items, selected_index, view_start, max_rows)
Panel == render_panel(filtered_items, selected_index, view_start, max_rows)

\* fragments i..j of a FormattedText that carry a style
Styled(text, style, i, j) == {k \in i..j : text[k][1] = style}

\* C8 - Empty-state display: whenever filtered is empty, the content of a
\* redraw holds, between the prompt/query line and the footer hint, the panel
\* in its no-results form: the "No results" header, one message row and
\* max_rows - 1 blank placeholder rows.
EmptyStateDisplayed ==
    (filtered_items = <<>> /\ max_rows >= 1) =>
        \A shown \in {Content} :
            /\ Len(shown) > 3
            /\ shown[1] = <<"class:prompt", prompt_text>>
            /\ shown[2] = <<"class:input", input_text>>
            /\ shown[Len(shown)] = <<"class:footer", footer_hint>>
            /\ \E h \in 3..(Len(shown) - 1) :
                   /\ shown[h][1] = "class:panel-border"
                   /\ contains(shown[h][2], title_empty)
                   /\ Cardinality(Styled(shown, "class:no-results", h, Len(shown))) = 1
                   /\ Cardinality(Styled(shown, "class:panel-placeholder", h, Len(shown)))
                          = max_rows - 1

\* C9 - Row count invariant: with max_rows >= 1 the panel renderer emits
\* exactly max_rows content rows between the header row and the footer row,
\* whatever len(filtered) is.
RowCountInvariant ==
    max_rows >= 1 =>
        \A panel \in {Panel} :
            /\ Len(panel) = 3 * max_rows + 2
            /\ panel[1] \in {_panel_header(title_empty)[1], _panel_header(title_results)[1]}
            /\ panel[Len(panel)] = _panel_footer[1]
            /\ \A r \in 0..(max_rows - 1) :
                   /\ panel[3 * r + 2] = <<"class:panel-border", <<9474, SP>> >>
                   /\ Len(panel[3 * r + 3][2]) = panel_inner_width
                   /\ panel[3 * r + 4] = <<"class:panel-border", <<SP, 9474, NL>> >>

\* a query that matches nothing, in a panel of several rows
EmptyPanelRows ==
    /\ filtered_items = <<>>
    /\ choices # <<>>
    /\ max_rows >= 2
    /\ \E panel \in {Panel} :
           Cardinality(Styled(panel, "class:panel-placeholder", 1, Len(panel))) = max_rows - 1

\* the content rows of a FormattedText panel: header, three fragments per
\* row, footer
RowsOf(panel) == 0..((Len(panel) - 2) \div 3 - 1)

\* total length of content row r of a panel, its line break included
RowLength(panel, r) ==
    Len(panel[3 * r + 2][2]) + Len(panel[3 * r + 3][2]) + Len(panel[3 * r + 4][2])

\* C18 - Constant row width: in every reachable state each content row of
\* the rendered panel is as long as the header row and the footer row, that
\* is panel_width = 80 characters before the line break, and the column
\* formatter's output for an item is never longer than the content width
\* (the interior width minus the 2-character prefix), in the three-field
\* layout as in the truncation fallback.
ConstantRowWidth ==
    \A panel \in {Panel} :
        /\ Len(panel) >= 2
        /\ (Len(panel) - 2) % 3 = 0
        /\ Len(panel[1][2]) = panel_width + 1
        /\ panel[1][2][panel_width + 1] = NL
        /\ Len(panel[Len(panel)][2]) = panel_width + 1
        /\ panel[Len(panel)][2][panel_width + 1] = NL
        /\ \A r \in RowsOf(panel) :
               /\ RowLength(panel, r) = panel_width + 1
               /\ panel[3 * r + 4][2][Len(panel[3 * r + 4][2])] = NL
        /\ \A i \in 1..Len(filtered_items) :
               \A prefix \in {prefix_selected, prefix_plain} :
                   Len(_format_item_columns(filtered_items[i],
                                            panel_inner_width - Len(prefix)))
                       <= panel_inner_width - Len(prefix)

\* after an edit of the query a visible row shows, in the three-field layout,
\* a candidate wider than a row
LongRowDisplayed ==
    /\ max_rows >= 1
    /\ last_key \in EditKeys
    /\ input_text # <<>>
    /\ \E i \in (view_start + 1)..Min(view_start + max_rows, Len(filtered_items)) :
           /\ Len(filtered_items[i]) > panel_inner_width - 2
           /\ _format_item_columns(filtered_items[i], panel_inner_width - 2)
                  # _truncate(filtered_items[i], panel_inner_width - 2)

\* C19 - Exactly one highlighted row: with max_rows >= 1 and a non-empty
\* filtered list, exactly one content row of the rendered panel carries the
\* selection marker and the selected style, and it displays
\* filtered[selected_index]; every other content row carries the blank
\* prefix and the plain style, or is a placeholder.
OneHighlightedRow ==
    (max_rows >= 1 /\ filtered_items # <<>>) =>
        \A panel \in {Panel} :
            /\ RowsOf(panel) = 0..(max_rows - 1)
            /\ {r \in RowsOf(panel) : panel[3 * r + 3][1] = "class:selected-line"}
                   = {selected_index - view_start}
            /\ {r \in RowsOf(panel) : SubSeq(panel[3 * r + 3][2], 1, 2) = prefix_selected}
                   = {selected_index - view_start}
            /\ \A r \in RowsOf(panel) :
                   \A row \in {panel[3 * r + 3]} :
                       IF r = selected_index - view_start
                       THEN row[2] = ljust(prefix_selected
                                           \o _format_item_columns(Highlighted,
                                                                   panel_inner_width - 2),
                                           panel_inner_width)
                       ELSE IF view_start + r < Len(filtered_items)
                       THEN /\ row[1] = "class:panel-line"
                            /\ row[2] = ljust(prefix_plain
                                              \o _format_item_columns(
                                                     filtered_items[view_start + r + 1],
                                                     panel_inner_width - 2),
                                              panel_inner_width)
                       ELSE row = <<"class:panel-placeholder", times(SP, panel_inner_width)>>

\* the highlighted row is not the first row of a scrolled window
HighlightBelowTop ==
    /\ max_rows >= 2
    /\ filtered_items # <<>>
    /\ view_start > 0
    /\ selected_index > view_start
    /\ \E panel \in {Panel} :
           panel[3 * (selected_index - view_start) + 3][1] = "class:selected-line"

-----------------------------------------------------------------------------
(* Properties of _truncate *)

\* C10 - Truncation idempotence: for every string s and width w >= 0,
\* truncate(truncate(s, w), w) = truncate(s, w), and the result never has
\* more than w characters.
TruncationIdempotent ==
    trunc_width >= 0 =>
        /\ Len(trunc_out) = 2 => trunc_out[2] = trunc_out[1]
        /\ \A i \in 1..Len(trunc_out) : Len(trunc_out[i]) <= trunc_width

\* a text longer than the width was cut and the cut text truncated again
TruncatedTwice ==
    /\ Len(trunc_out) = 2
    /\ trunc_width >= 2
    /\ Len(trunc_text) > trunc_width
    /\ trunc_out[1] # trunc_text
    /\ trunc_out[1][trunc_width] = ELLIPSIS

====
